---- MODULE Spec2Model ----
(***************************************************************************)
(* State machine of the MusicPlayer component (src/unnamed/part_000) and   *)
(* of extractAlbumArt (src/src/utils/mediaUtils.ts).                       *)
(*                                                                         *)
(* Every event handler of the component is one action: the handler's body, *)
(* the re-render it causes and the useEffect that runs after the render    *)
(* when currentSong changed.  The <audio> element is the environment: the  *)
(* commands the component sends to it are recorded in audioCmds, and the   *)
(* events it raises (timeupdate, ended, loadedmetadata) are actions whose  *)
(* payload is drawn from a small set.                                      *)
(*                                                                         *)
(* Indices are 0-based as in the source; TLA+ sequences are 1-based, so    *)
(* element k of a JavaScript array a is a[k + 1] here.                     *)
(***************************************************************************)
EXTENDS Integers, Sequences, FiniteSets, Bags, TLC

\* ---------------------------------------------------------------- bounds
\* Number of files the user picks over the whole run (all uploads together).
MaxSongs == 3

\* ------------------------------------------------------ JavaScript values
\* currentSong is a JavaScript number or undefined.  Indices are >= 0; the
\* two non-index values the code can store are encoded as negative numbers.
Undefined == -2
NaN == -3
\* Array.prototype.indexOf's "not found".
NotFound == -1
\* playPrevious restarts the track when more than this many seconds elapsed.
RestartThreshold == 3

IsNumber(x) == x >= 0

\* JavaScript's % (the sign follows the dividend); b > 0 everywhere it is used.
JsRem(a, b) == IF a >= 0 THEN a % b ELSE -((-a) % b)

\* (x + d) % n as JavaScript computes it: undefined and NaN give NaN.
JsAddRem(x, d, n) == IF IsNumber(x) THEN JsRem(x + d, n) ELSE NaN

\* Array.prototype.indexOf: the first position holding x, or -1.
IndexOf(q, x) ==
    IF \A k \in 1..Len(q) : q[k] # x
    THEN NotFound
    ELSE (CHOOSE k \in 1..Len(q) : q[k] = x /\ \A j \in 1..(k - 1) : q[j] # x) - 1

\* indexOf on an array of numbers: it compares with ===, so undefined is found
\* where it was stored and NaN is found nowhere.
QueueIndexOf(q, x) == IF x = NaN THEN NotFound ELSE IndexOf(q, x)

\* q[k]: reading past the end of an array (or at a non-index) gives undefined.
At(q, k) == IF k + 1 \in 1..Len(q) THEN q[k + 1] ELSE Undefined

\* All orders .sort(() => Math.random() - 0.5) can leave the elements of S in.
Shuffles(S) ==
    { f \in [1..Cardinality(S) -> S] : \A i, j \in 1..Cardinality(S) : i # j => f[i] # f[j] }

\* ---------------------------------------------------------------- state
VARIABLES
    songs,          \* useState<Song[]>: sequence of [name, id, albumArt]
    currentSong,    \* useState<number>
    isPlaying,      \* useState(false)
    currentTime,    \* useState(0): last position reported by timeupdate
    isShuffled,     \* useState(false)
    repeatMode,     \* useState<'none' | 'all' | 'one'>
    shuffledQueue,  \* useState<number[]>
    uploads,        \* bag of the handleFileUpload calls awaiting Promise.all
    picked,         \* number of files picked so far, all uploads together
    likedSongs,     \* useState<Set<string>>: the liked ids
    showLikedOnly,  \* useState(false)
    volume,         \* useState(1), in hundredths
    isMuted,        \* useState(false)
    audioVolume,    \* audioRef.current.volume, in hundredths
    audioMuted,     \* audioRef.current.muted
    audioCmds,      \* commands the last step sent to audioRef.current, in order
    lastCmd,        \* the last play/pause command sent to audioRef.current
    lastOp          \* the handler that ran last

vars == << songs, currentSong, isPlaying, currentTime, isShuffled, repeatMode,
           shuffledQueue, uploads, picked, likedSongs, showLikedOnly, volume,
           isMuted, audioVolume, audioMuted, audioCmds, lastCmd, lastOp >>

playerVars == << currentSong, isPlaying, currentTime, isShuffled, repeatMode, shuffledQueue >>

\* The liked set, the list filter and the volume controls.
panelVars == << likedSongs, showLikedOnly, volume, isMuted, audioVolume, audioMuted >>

RepeatModes == << "none", "all", "one" >>
\* Positions (whole seconds) the audio element reports: the start, the last
\* one that is not past the restart threshold and the first one that is.
Times == { 0, RestartThreshold, RestartThreshold + 1 }

\* What happens to the promise extractAlbumArt(file) returns:
\*   "loads"  - the element fires loadedmetadata, the promise resolves;
\*   "throws" - the try block throws, the catch returns undefined at once;
\*   "stalls" - the element cannot read the file and fires error, never
\*              loadedmetadata: nothing resolves the awaited promise.
FileKinds == { "loads", "throws", "stalls" }

\* extractAlbumArt up to its first suspension point.
extractAlbumArt(kind) ==
    CASE kind = "loads"  -> "waiting"
      [] kind = "throws" -> "done"
      [] kind = "stalls" -> "stalled"

\* --------------------------------------------------- the audio primitive
\* The effect as it would be if it resumed playback on every track change.
useEffectAlwaysPlays(old, new, playing) ==
    IF new = old THEN << >> ELSE << "play" >>

\* useEffect(..., [currentSong]): runs after a render in which currentSong
\* changed, with the isPlaying of that render.
useEffect(old, new, playing) ==
    IF new = old THEN << >>
    ELSE IF playing THEN << "play" >> ELSE << "pause" >>

Transport(cmds) == SelectSeq(cmds, LAMBDA c : c \in { "play", "pause" })

\* A step that sends cmds to the audio element.
Send(cmds) ==
    /\ audioCmds' = cmds
    /\ lastCmd' = IF Transport(cmds) = << >> THEN lastCmd
                  ELSE Transport(cmds)[Len(Transport(cmds))]

\* A handler that sends cmds and calls setCurrentSong(new): the render, then
\* the effect.
setCurrentSong(new, cmds) ==
    /\ currentSong' = new
    /\ Send(cmds \o useEffect(currentSong, new, isPlaying))

Init ==
    /\ songs = << >>
    /\ currentSong = 0
    /\ isPlaying = FALSE
    /\ currentTime = 0
    /\ isShuffled = FALSE
    /\ repeatMode = "none"
    /\ shuffledQueue = << >>
    /\ uploads = EmptyBag
    /\ picked = 0
    /\ likedSongs = {}
    /\ showLikedOnly = FALSE
    /\ volume = 100
    /\ isMuted = FALSE
    /\ audioVolume = 100
    /\ audioMuted = FALSE
    /\ audioCmds = << "pause" >>
    /\ lastCmd = "pause"
    /\ lastOp = "mount"

\* ------------------------------------------------------------- uploading
\* The user names the files of a selection; the k files of one selection are
\* named 1..k here, in the order of the FileList.  At most MaxSongs files
\* are picked in a run.
\* handleFileUpload up to the await: one extractAlbumArt per picked file.
handleFileUpload ==
    \E k \in 1..(MaxSongs - picked) :
      \E kinds \in [1..k -> FileKinds] :
        /\ uploads' = uploads (+)
              SetToBag({ [i \in 1..k |-> [name |-> i, st |-> extractAlbumArt(kinds[i])]] })
        /\ picked' = picked + k
        /\ Send(<< >>)
        /\ lastOp' = "handleFileUpload"
        /\ UNCHANGED << songs, playerVars, panelVars >>

\* The loadedmetadata event of one extraction's <audio> element.
loadedmetadata ==
    \E u \in BagToSet(uploads) :
      \E i \in DOMAIN u :
        /\ u[i].st = "waiting"
        /\ uploads' = (uploads (-) SetToBag({ u })) (+) SetToBag({ [u EXCEPT ![i].st = "done"] })
        /\ Send(<< >>)
        /\ lastOp' = "loadedmetadata"
        /\ UNCHANGED << songs, playerVars, picked, panelVars >>

\* The Song objects the map callbacks of one upload return.  The ids
\* Math.random() yields are taken to be distinct: song number k of the run
\* gets id k.
NewSongs(u) ==
    [i \in DOMAIN u |-> [name |-> u[i].name, id |-> Len(songs) + i, albumArt |-> Undefined]]

\* setSongs putting the new songs in front of the playlist.
setSongsPrepends ==
    \E u \in BagToSet(uploads) :
        /\ \A i \in DOMAIN u : u[i].st = "done"
        /\ songs' = NewSongs(u) \o songs
        /\ uploads' = uploads (-) SetToBag({ u })
        /\ Send(<< >>)
        /\ lastOp' = "setSongs"
        /\ UNCHANGED << playerVars, picked, panelVars >>

\* Promise.all resolves and setSongs((prev) => [...prev, ...newSongs]) runs.
setSongs ==
    \E u \in BagToSet(uploads) :
        /\ \A i \in DOMAIN u : u[i].st = "done"
        /\ songs' = songs \o NewSongs(u)
        /\ uploads' = uploads (-) SetToBag({ u })
        /\ Send(<< >>)
        /\ lastOp' = "setSongs"
        /\ UNCHANGED << playerVars, picked, panelVars >>

\* ------------------------------------------------------------- transport
togglePlay ==
    /\ isPlaying' = ~isPlaying
    /\ Send(IF isPlaying THEN << "pause" >> ELSE << "play" >>)
    /\ lastOp' = "togglePlay"
    /\ UNCHANGED << songs, currentSong, currentTime, isShuffled, repeatMode,
                    shuffledQueue, uploads, picked, panelVars >>

\* The timeupdate event: the element reports its position.
handleTimeUpdate ==
    \E t \in Times :
        /\ Len(songs) > 0
        /\ currentTime' = t
        /\ Send(<< >>)
        /\ lastOp' = "handleTimeUpdate"
        /\ UNCHANGED << songs, currentSong, isPlaying, isShuffled, repeatMode,
                        shuffledQueue, uploads, picked, panelVars >>

\* displayedSongs with the filter test inverted.
DisplayedSongsInverted ==
    IF showLikedOnly
    THEN SelectSeq(songs, LAMBDA song : song.id \notin likedSongs)
    ELSE songs

\* displayedSongs: the rows the playlist panel renders.
DisplayedSongs ==
    IF showLikedOnly
    THEN SelectSeq(songs, LAMBDA song : song.id \in likedSongs)
    ELSE songs

\* The click on a row of the displayed list.
onClickSong ==
    \E k \in 1..Len(DisplayedSongs) :
        /\ setCurrentSong(IndexOf(songs, DisplayedSongs[k]), << >>)
        /\ lastOp' = "onClickSong"
        /\ UNCHANGED << songs, isPlaying, currentTime, isShuffled, repeatMode,
                        shuffledQueue, uploads, picked, panelVars >>

\* ---------------------------------------------------- shuffle and repeat
\* The queue toggleShuffle builds: currentSong, then the other indices in
\* one of the orders the random sort can produce.
NewQueues(n, cur) ==
    { << cur >> \o p : p \in Shuffles({ i \in 0..(n - 1) : i # cur }) }

toggleShuffle ==
    /\ isShuffled' = ~isShuffled
    /\ IF ~isShuffled
       THEN shuffledQueue' \in NewQueues(Len(songs), currentSong)
       ELSE UNCHANGED shuffledQueue
    /\ Send(<< >>)
    /\ lastOp' = "toggleShuffle"
    /\ UNCHANGED << songs, currentSong, isPlaying, currentTime, repeatMode,
                    uploads, picked, panelVars >>

\* The repeat button as an on/off switch that never reaches 'one'.
NextRepeatModeOnOff(mode) ==
    IF mode = "none" THEN "all" ELSE "none"

NextRepeatMode(mode) ==
    RepeatModes[JsRem(IndexOf(RepeatModes, mode) + 1, Len(RepeatModes)) + 1]

toggleRepeat ==
    /\ repeatMode' = NextRepeatMode(repeatMode)
    /\ Send(<< >>)
    /\ lastOp' = "toggleRepeat"
    /\ UNCHANGED << songs, currentSong, isPlaying, currentTime, isShuffled,
                    shuffledQueue, uploads, picked, panelVars >>

\* ------------------------------------------------------------ navigation
\* nextIndex without the wrap at the end of the playlist.
NextIndexNoWrap(cur, n, shuffled, queue) ==
    IF shuffled
    THEN At(queue, QueueIndexOf(queue, cur) + 1)
    ELSE IF IsNumber(cur) THEN cur + 1 ELSE NaN

\* nextIndex of playNext.
NextIndex(cur, n, shuffled, queue) ==
    IF shuffled
    THEN At(queue, JsRem(QueueIndexOf(queue, cur) + 1, n))
    ELSE JsAddRem(cur, 1, n)

\* prevIndex without the "+ songs.length" that keeps the dividend positive.
PrevIndexNoWrap(cur, n, shuffled, queue) ==
    IF shuffled
    THEN At(queue, JsRem(QueueIndexOf(queue, cur) - 1, n))
    ELSE JsAddRem(cur, -1, n)

\* prevIndex of playPrevious.
PrevIndex(cur, n, shuffled, queue) ==
    IF shuffled
    THEN At(queue, JsRem(QueueIndexOf(queue, cur) - 1 + n, n))
    ELSE JsAddRem(cur, n - 1, n)

\* playNext without the repeat-one branch.
PlayNextBodyIgnoresRepeatOne ==
    /\ IF Len(songs) = 0
       THEN /\ Send(<< >>)
            /\ UNCHANGED currentSong
       ELSE setCurrentSong(NextIndex(currentSong, Len(songs), isShuffled, shuffledQueue), << >>)
    /\ UNCHANGED << songs, isPlaying, currentTime, isShuffled, repeatMode,
                    shuffledQueue, uploads, picked, panelVars >>

\* The body of playNext (also called by handleSongEnd).
PlayNextBody ==
    /\ IF Len(songs) = 0
       THEN /\ Send(<< >>)
            /\ UNCHANGED currentSong
       ELSE IF repeatMode = "one"
       THEN /\ Send(<< "seek0", "play" >>)
            /\ UNCHANGED currentSong
       ELSE setCurrentSong(NextIndex(currentSong, Len(songs), isShuffled, shuffledQueue), << >>)
    /\ UNCHANGED << songs, isPlaying, currentTime, isShuffled, repeatMode,
                    shuffledQueue, uploads, picked, panelVars >>

playNext ==
    /\ PlayNextBody
    /\ lastOp' = "playNext"

\* playPrevious without the return that ends the restart branch.
playPreviousFallsThrough ==
    /\ IF Len(songs) = 0
       THEN /\ Send(<< >>)
            /\ UNCHANGED currentSong
       ELSE setCurrentSong(PrevIndex(currentSong, Len(songs), isShuffled, shuffledQueue),
                           IF currentTime > RestartThreshold THEN << "seek0" >> ELSE << >>)
    /\ lastOp' = "playPrevious"
    /\ UNCHANGED << songs, isPlaying, currentTime, isShuffled, repeatMode,
                    shuffledQueue, uploads, picked, panelVars >>

playPrevious ==
    /\ IF Len(songs) = 0
       THEN /\ Send(<< >>)
            /\ UNCHANGED currentSong
       ELSE IF currentTime > RestartThreshold
       THEN /\ Send(<< "seek0" >>)
            /\ UNCHANGED currentSong
       ELSE setCurrentSong(PrevIndex(currentSong, Len(songs), isShuffled, shuffledQueue), << >>)
    /\ lastOp' = "playPrevious"
    /\ UNCHANGED << songs, isPlaying, currentTime, isShuffled, repeatMode,
                    shuffledQueue, uploads, picked, panelVars >>

\* handleSongEnd advancing in repeat mode All only.
handleSongEndAdvancesOnlyOnAll ==
    /\ Len(songs) > 0
    /\ IF repeatMode = "one"
       THEN /\ Send(<< "seek0", "play" >>)
            /\ UNCHANGED << songs, playerVars, uploads, picked, panelVars >>
       ELSE IF repeatMode = "all"
       THEN PlayNextBody
       ELSE /\ isPlaying' = FALSE
            /\ Send(<< >>)
            /\ UNCHANGED << songs, currentSong, currentTime, isShuffled, repeatMode,
                            shuffledQueue, uploads, picked, panelVars >>
    /\ lastOp' = "handleSongEnd"

\* The ended event.  The element raises it only for a media resource, and the
\* component binds one (src) as soon as the playlist is non-empty.
handleSongEnd ==
    /\ Len(songs) > 0
    /\ IF repeatMode = "one"
       THEN /\ Send(<< "seek0", "play" >>)
            /\ UNCHANGED << songs, playerVars, uploads, picked, panelVars >>
       ELSE IF repeatMode = "all" \/ Len(songs) > 1
       THEN PlayNextBody
       ELSE /\ isPlaying' = FALSE
            /\ Send(<< >>)
            /\ UNCHANGED << songs, currentSong, currentTime, isShuffled, repeatMode,
                            shuffledQueue, uploads, picked, panelVars >>
    /\ lastOp' = "handleSongEnd"

\* ------------------------------------------------ likes, filter, volume
\* An updater that only ever adds.
ToggleLikeAddsOnly(liked, songId) == liked \cup { songId }

\* The new liked set toggleLike's updater returns.
ToggleLike(liked, songId) ==
    IF songId \in liked THEN liked \ { songId } ELSE liked \cup { songId }

\* The click on the heart of a displayed row (the row's click is stopped).
toggleLike ==
    \E k \in 1..Len(DisplayedSongs) :
        /\ likedSongs' = ToggleLike(likedSongs, DisplayedSongs[k].id)
        /\ Send(<< >>)
        /\ lastOp' = "toggleLike"
        /\ UNCHANGED << songs, playerVars, uploads, picked, showLikedOnly,
                        volume, isMuted, audioVolume, audioMuted >>

\* The "Show Liked Songs" / "Show All Songs" button.
setShowLikedOnly ==
    /\ showLikedOnly' = ~showLikedOnly
    /\ Send(<< >>)
    /\ lastOp' = "setShowLikedOnly"
    /\ UNCHANGED << songs, playerVars, uploads, picked, likedSongs,
                    volume, isMuted, audioVolume, audioMuted >>

\* toggleMute silencing through the volume instead of the muted flag.
toggleMuteZeroesVolume ==
    /\ audioMuted' = ~isMuted
    /\ isMuted' = ~isMuted
    /\ volume' = IF isMuted THEN volume ELSE 0
    /\ audioVolume' = volume'
    /\ Send(<< >>)
    /\ lastOp' = "toggleMute"
    /\ UNCHANGED << songs, playerVars, uploads, picked, likedSongs, showLikedOnly >>

toggleMute ==
    /\ audioMuted' = ~isMuted
    /\ isMuted' = ~isMuted
    /\ Send(<< >>)
    /\ lastOp' = "toggleMute"
    /\ UNCHANGED << songs, playerVars, uploads, picked, likedSongs, showLikedOnly,
                    volume, audioVolume >>

\* Values of the volume slider (hundredths): both ends and the middle.
Volumes == { 0, 50, 100 }

handleVolumeChange ==
    \E newVolume \in Volumes :
        /\ volume' = newVolume
        /\ audioVolume' = newVolume
        /\ Send(<< >>)
        /\ lastOp' = "handleVolumeChange"
        /\ UNCHANGED << songs, playerVars, uploads, picked, likedSongs, showLikedOnly,
                        isMuted, audioMuted >>

\* The handlers of the transport bar and of the upload button.  They neither
\* read nor write the liked set, the filter and the volume controls.
Next ==
    \/ handleFileUpload
    \/ loadedmetadata
    \/ setSongs
    \/ togglePlay
    \/ handleTimeUpdate
    \/ onClickSong
    \/ toggleShuffle
    \/ toggleRepeat
    \/ playNext
    \/ playPrevious
    \/ handleSongEnd

Spec == Init /\ [][Next]_vars

\* The handlers of the playlist panel and of the volume controls, with the
\* uploads that fill the playlist.  They neither read nor write the shuffle
\* state, the repeat mode and the transport state.
PanelNext ==
    \/ handleFileUpload
    \/ loadedmetadata
    \/ setSongs
    \/ onClickSong
    \/ toggleLike
    \/ setShowLikedOnly
    \/ toggleMute
    \/ handleVolumeChange

PanelSpec == Init /\ [][PanelNext]_vars


\* The upload path on its own schedule: the browser delivers loadedmetadata
\* for every file it can read, and a promise whose inputs are all settled
\* runs its continuation.  Nothing obliges the user to act.
Fairness == WF_vars(loadedmetadata) /\ WF_vars(setSongs)

LiveSpec == Spec /\ Fairness

PanelLiveSpec == PanelSpec /\ Fairness

\* ======================================================================
\* Properties
\* ======================================================================
ValidIndices == 0..(Len(songs) - 1)

Contains(cmds, c) == \E k \in 1..Len(cmds) : cmds[k] = c

\* q holds every index of a playlist of length n exactly once, nothing else.
IsPermutationOfIndices(q, n) ==
    /\ Len(q) = n
    /\ { q[k] : k \in 1..Len(q) } = 0..(n - 1)

\* C1: whenever the playlist is non-empty, currentIndex is a defined integer
\* with 0 <= currentIndex < len(Playlist).
C1_CurrentIndexInRange ==
    Len(songs) > 0 => currentSong \in ValidIndices

\* C2 (as stated): whenever currentIndex changes, a play command is issued
\* after the switch, whether or not isPlaying was true.
C2_AlwaysPlayOnSwitch ==
    [][currentSong' # currentSong => Contains(audioCmds', "play")]_vars

\* C2 (amended): whenever currentIndex changes, exactly one transport command
\* is issued after the switch: play if isPlaying is true, pause if it is false.
C2_EffectFollowsIsPlaying ==
    [][currentSong' # currentSong =>
          /\ isPlaying' = isPlaying
          /\ audioCmds' = IF isPlaying THEN << "play" >> ELSE << "pause" >>]_vars

\* A paused player has just been switched to another row by a click, and the
\* command that followed the switch is pause.
C2_Witness ==
    /\ lastOp = "onClickSong"
    /\ ~isPlaying
    /\ currentSong = 1
    /\ audioCmds = << "pause" >>

\* C3: order is a permutation of all valid playlist indices if and only if
\* shuffle is enabled.
C3_OrderPermutationIffShuffled ==
    IsPermutationOfIndices(shuffledQueue, Len(songs)) <=> isShuffled

\* C4: a toggleShuffle call that turns shuffle on leaves an order whose first
\* element is the current index and which holds every valid index exactly
\* once and nothing else.  (toggleShuffle changes neither songs nor
\* currentSong, so the state after the call decides it.)
C4_EnablingShuffleBuildsPermutation ==
    (lastOp = "toggleShuffle" /\ isShuffled) =>
        /\ Len(shuffledQueue) > 0
        /\ shuffledQueue[1] = currentSong
        /\ IsPermutationOfIndices(shuffledQueue, Len(songs))

\* The index k consecutive playNext calls reach from c (playNext changes
\* nothing else that it reads).
RECURSIVE PlayNextTimes(_, _)
PlayNextTimes(c, k) ==
    IF k = 0 THEN c
    ELSE NextIndex(PlayNextTimes(c, k - 1), Len(songs), isShuffled, shuffledQueue)

\* C5: with shuffle off, repeat mode not One and currentIndex a valid index,
\* each playNext call moves to (currentIndex + 1) mod n and keeps the
\* playlist, shuffle and repeat mode; and n consecutive calls visit every
\* index exactly once, the n-th returning to the start.
C5_PlayNextCycles ==
    /\ [][(lastOp' = "playNext" /\ ~isShuffled /\ repeatMode # "one"
              /\ currentSong \in ValidIndices) =>
            /\ currentSong' = (currentSong + 1) % Len(songs)
            /\ UNCHANGED << songs, isShuffled, repeatMode, shuffledQueue >>]_vars
    /\ []((~isShuffled /\ currentSong \in ValidIndices) =>
            /\ PlayNextTimes(currentSong, Len(songs)) = currentSong
            /\ { PlayNextTimes(currentSong, k) : k \in 1..Len(songs) } = ValidIndices
            /\ \A k \in 1..(Len(songs) - 1) : PlayNextTimes(currentSong, k) # currentSong)

\* playNext has just wrapped from the last of three tracks to the first, in
\* repeat mode All.
C5_Witness ==
    /\ lastOp = "playNext"
    /\ Len(songs) = 3
    /\ ~isShuffled
    /\ repeatMode = "all"
    /\ currentSong = 0
    /\ audioCmds # << >>

\* C6: the decision table of the end-of-media event.
C6_SongEndDecisionTable ==
    [][lastOp' = "handleSongEnd" =>
          /\ repeatMode = "one" =>
                /\ currentSong' = currentSong
                /\ isPlaying' = isPlaying
                /\ audioCmds' = << "seek0", "play" >>
          /\ (repeatMode = "all" \/ (repeatMode = "none" /\ Len(songs) > 1)) =>
                /\ PlayNextBody
                /\ isPlaying' = isPlaying
          /\ (repeatMode = "none" /\ Len(songs) = 1) =>
                /\ isPlaying' = FALSE
                /\ currentSong' = currentSong
          /\ (isPlaying /\ ~isPlaying') => (repeatMode = "none" /\ Len(songs) = 1)]_vars

\* The single track of a playlist has ended in repeat mode None while the
\* player was playing: the player has stopped.
C6_Witness ==
    /\ lastOp = "handleSongEnd"
    /\ repeatMode = "none"
    /\ Len(songs) = 1
    /\ ~isPlaying
    /\ lastCmd = "play"

\* C7: with shuffle off, a non-empty playlist and currentIndex a valid index,
\* playPrevious at currentTime <= 3 moves to (currentIndex - 1 + n) mod n.
C7_PlayPreviousWraps ==
    [][(lastOp' = "playPrevious" /\ Len(songs) > 0 /\ ~isShuffled /\ currentTime <= 3
            /\ currentSong \in ValidIndices) =>
          /\ currentSong' = (currentSong - 1 + Len(songs)) % Len(songs)
          /\ currentSong = 0 => currentSong' = Len(songs) - 1]_vars

\* playPrevious has just wrapped from the first of three tracks to the last,
\* exactly three seconds into the track.
C7_Witness ==
    /\ lastOp = "playPrevious"
    /\ Len(songs) = 3
    /\ ~isShuffled
    /\ currentTime = 3
    /\ currentSong = 2
    /\ audioCmds # << >>

\* C8: on a non-empty playlist at currentTime > 3, playPrevious leaves
\* currentIndex, isPlaying, the shuffle state and the repeat mode unchanged and
\* sends one command: seek to 0.
C8_PlayPreviousRestarts ==
    [][(lastOp' = "playPrevious" /\ Len(songs) > 0 /\ currentTime > 3) =>
          /\ UNCHANGED << songs, currentSong, isPlaying, isShuffled, shuffledQueue, repeatMode >>
          /\ audioCmds' = << "seek0" >>]_vars

\* playPrevious has just restarted the current track of a shuffled playlist.
C8_Witness ==
    /\ lastOp = "playPrevious"
    /\ Len(songs) >= 2
    /\ isShuffled
    /\ currentTime > 3
    /\ audioCmds = << "seek0" >>

\* C9: togglePlay on an empty playlist changes nothing and sends no command;
\* on a non-empty playlist it flips isPlaying and sends the matching command.
C9_TogglePlayNoOpWhenEmpty ==
    [][lastOp' = "togglePlay" =>
          IF Len(songs) = 0
          THEN /\ UNCHANGED << songs, playerVars, panelVars >>
               /\ audioCmds' = << >>
          ELSE /\ isPlaying' = ~isPlaying
               /\ audioCmds' = IF isPlaying THEN << "pause" >> ELSE << "play" >>]_vars

\* C10: every file of every upload is eventually on the playlist, whatever
\* becomes of the extractions of the batch.
C10_EveryBatchIsAppended ==
    \A m \in 1..MaxSongs : (picked >= m) ~> (Len(songs) >= m)


\* The number of files of the uploads in flight.
RECURSIVE FilesOf(_)
FilesOf(S) ==
    IF S = {} THEN 0
    ELSE LET u == CHOOSE x \in S : TRUE
         IN Len(u) * CopiesIn(u, uploads) + FilesOf(S \ { u })

InFlight == FilesOf(BagToSet(uploads))

Names(list) == [k \in 1..Len(list) |-> list[k].name]

\* C11: every step that changes the playlist appends the files of exactly one
\* upload whose extractions have all completed, as one block in the order of
\* the selection, after the tracks already there, which keep their places,
\* and leaves currentIndex alone; so the playlist is a sequence of whole
\* batches, every picked file is either on the playlist once or still in
\* flight, and every upload whose extractions all complete is appended, in
\* whatever order the extractions of overlapping uploads complete.
C11_BatchAppendedOnceInOrder ==
    /\ [][songs' # songs =>
            \E u \in BagToSet(uploads) :
                /\ \A i \in DOMAIN u : u[i].st = "done"
                /\ uploads' = uploads (-) SetToBag({ u })
                /\ Len(songs') = Len(songs) + Len(u)
                /\ SubSeq(songs', 1, Len(songs)) = songs
                /\ \A i \in 1..Len(u) : songs'[Len(songs) + i].name = u[i].name
                /\ currentSong' = currentSong]_vars
    /\ [](/\ picked = Len(songs) + InFlight
          /\ \A k \in 1..Len(songs) :
                songs[k].name = IF k > 1 /\ songs[k].name # 1 THEN songs[k - 1].name + 1 ELSE 1)
    /\ <>[](\A u \in BagToSet(uploads) : \E i \in DOMAIN u : u[i].st = "stalled")

\* A two-file upload has just been appended while another upload, whose
\* extraction completed first, is still waiting to be appended.
C11_Witness ==
    /\ lastOp = "setSongs"
    /\ Names(songs) = << 1, 2 >>
    /\ \E u \in BagToSet(uploads) : \A i \in DOMAIN u : u[i].st = "done"

\* C12: cycleRepeat moves None -> All -> One -> None and changes nothing
\* else; three calls return to the mode they started from.
C12_RepeatCycle ==
    /\ [][lastOp' = "toggleRepeat" =>
            /\ repeatMode' = CASE repeatMode = "none" -> "all"
                               [] repeatMode = "all"  -> "one"
                               [] repeatMode = "one"  -> "none"
            /\ audioCmds' = << >>
            /\ UNCHANGED << songs, currentSong, isPlaying, currentTime, isShuffled,
                            shuffledQueue, uploads, picked, panelVars, lastCmd >>]_vars
    /\ [](NextRepeatMode(NextRepeatMode(NextRepeatMode(repeatMode))) = repeatMode)

\* The repeat button has just brought the mode back to None.
C12_Witness ==
    /\ lastOp = "toggleRepeat"
    /\ repeatMode = "none"

\* C13: one toggleLike call changes the membership of exactly one id, that of
\* a displayed song, and leaves the playlist, currentIndex and isPlaying
\* unchanged; a second call with the same id restores the liked set.
C13_ToggleLikeInvolution ==
    /\ [][lastOp' = "toggleLike" =>
            /\ \E k \in 1..Len(DisplayedSongs) :
                 LET songId == DisplayedSongs[k].id
                 IN /\ (songId \in likedSongs') # (songId \in likedSongs)
                    /\ likedSongs' \ { songId } = likedSongs \ { songId }
                    /\ ToggleLike(likedSongs', songId) = likedSongs
            /\ UNCHANGED << songs, currentSong, isPlaying >>]_vars
    /\ [](\A songId \in 1..(Len(songs) + 1) :
            ToggleLike(ToggleLike(likedSongs, songId), songId) = likedSongs)

\* The first of three songs has just been unliked; the second is still liked.
C13_Witness ==
    /\ lastOp = "toggleLike"
    /\ Len(songs) = 3
    /\ likedSongs = { 2 }
    /\ ~showLikedOnly

\* The positions of the playlist whose song is liked.
LikedPositions == { k \in 1..Len(songs) : songs[k].id \in likedSongs }

\* C14: the filter button changes only the flag; the displayed list is the
\* whole playlist when the flag is off and, when it is on, the liked songs
\* of the playlist in playlist order.
C14_FilterIsAView ==
    /\ [][lastOp' = "setShowLikedOnly" =>
            /\ showLikedOnly' = ~showLikedOnly
            /\ UNCHANGED << songs, currentSong, likedSongs >>]_vars
    /\ [](IF showLikedOnly
          THEN /\ Len(DisplayedSongs) = Cardinality(LikedPositions)
               /\ \A k \in LikedPositions :
                     DisplayedSongs[Cardinality({ j \in LikedPositions : j <= k })] = songs[k]
          ELSE DisplayedSongs = songs)

\* The filter has just been switched on over three songs of which the first
\* and the last are liked.
C14_Witness ==
    /\ lastOp = "setShowLikedOnly"
    /\ showLikedOnly
    /\ Len(songs) = 3
    /\ likedSongs = { 1, 3 }

\* C15: toggleMute flips isMuted, forwards it to the element and leaves the
\* stored volume alone; the volume slider stores its value, forwards it to
\* the element and leaves isMuted alone.
C15_MuteKeepsVolume ==
    [][/\ lastOp' = "toggleMute" =>
            /\ isMuted' = ~isMuted
            /\ audioMuted' = isMuted'
            /\ UNCHANGED << volume, audioVolume >>
       /\ lastOp' = "handleVolumeChange" =>
            /\ volume' \in Volumes
            /\ audioVolume' = volume'
            /\ UNCHANGED << isMuted, audioMuted >>]_vars

\* The player has just been unmuted with the volume at one half.
C15_Witness ==
    /\ lastOp = "toggleMute"
    /\ ~isMuted
    /\ ~audioMuted
    /\ volume = 50
    /\ audioVolume = 50

\* C16: with repeat mode One and a non-empty playlist, playNext keeps
\* currentIndex (shuffled or not), seeks the element to 0 and then issues
\* play, so that play is the element's last transport command.
C16_PlayNextRepeatOneRestarts ==
    [][(lastOp' = "playNext" /\ repeatMode = "one" /\ Len(songs) > 0) =>
          /\ currentSong' = currentSong
          /\ audioCmds' = << "seek0", "play" >>
          /\ lastCmd' = "play"
          /\ UNCHANGED << songs, isShuffled, shuffledQueue, repeatMode >>]_vars

\* playNext has just restarted the second of two tracks in repeat mode One
\* with shuffle on.
C16_Witness ==
    /\ lastOp = "playNext"
    /\ repeatMode = "one"
    /\ isShuffled
    /\ Len(songs) = 2
    /\ currentSong = 1
    /\ audioCmds = << "seek0", "play" >>

\* The element of order that follows (d = 1) or precedes (d = -1) the
\* position of cur, cyclically over the length of order.
Neighbour(order, cur, d) ==
    order[((QueueIndexOf(order, cur) + d + Len(order)) % Len(order)) + 1]

\* C17: with shuffle enabled, repeat mode not One and currentIndex in order,
\* playNext moves to the element of order after currentIndex, wrapping from
\* the last element to order[0], and playPrevious (currentTime <= 3) to the
\* element before it, wrapping from order[0] to the last; and the n
\* consecutive playNext calls after enabling shuffle on a playlist of
\* length n visit every track once and end on the track they started from.
C17_ShuffleOrderNavigation ==
    /\ [][(isShuffled /\ repeatMode # "one" /\ Len(songs) > 0
              /\ QueueIndexOf(shuffledQueue, currentSong) # NotFound) =>
            /\ lastOp' = "playNext" =>
                  currentSong' = Neighbour(shuffledQueue, currentSong, 1)
            /\ (lastOp' = "playPrevious" /\ currentTime <= RestartThreshold) =>
                  currentSong' = Neighbour(shuffledQueue, currentSong, -1)]_vars
    /\ []((lastOp = "toggleShuffle" /\ isShuffled /\ repeatMode # "one"
              /\ Len(songs) > 0) =>
            /\ PlayNextTimes(currentSong, Len(songs)) = currentSong
            /\ { PlayNextTimes(currentSong, k) : k \in 1..Len(songs) } = ValidIndices)

\* C18: order is written only by a toggleShuffle call that turns shuffle
\* on; turning shuffle off flips only the enabled flag; and after tracks
\* were added while shuffle is enabled, order holds none of their indices.
C18_OrderWrittenOnlyOnEnable ==
    [][/\ shuffledQueue' # shuffledQueue =>
            (lastOp' = "toggleShuffle" /\ ~isShuffled /\ isShuffled')
       /\ (lastOp' = "toggleShuffle" /\ isShuffled) =>
            /\ ~isShuffled'
            /\ UNCHANGED << songs, currentSong, isPlaying, currentTime, repeatMode,
                            shuffledQueue, uploads, picked, panelVars >>
       /\ (lastOp' = "setSongs" /\ isShuffled) =>
            \A k \in 1..Len(shuffledQueue') :
                shuffledQueue'[k] \notin Len(songs)..(Len(songs') - 1)]_vars

\* C19: isPlaying is true exactly when the last play/pause command sent to
\* the element was play.
C19_IsPlayingAgreesWithLastCommand ==
    isPlaying <=> (lastCmd = "play")

\* C20: with repeat mode All and isPlaying true, the handling of every
\* end-of-media event issues a play command, whatever the playlist length.
C20_RepeatAllKeepsPlaying ==
    [][(lastOp' = "handleSongEnd" /\ repeatMode = "all" /\ isPlaying) =>
          Contains(audioCmds', "play")]_vars

====
